---- MODULE Spec2Model ----
(***************************************************************************)
(* The draft-order creation endpoint (app/routes/api.create-draft-order)   *)
(* as a state machine: the module-level settings cache, the Remix route    *)
(* exports `loader` and `action`, the createDraft closure with its         *)
(* Promise.all join, and sendEmailAsync.  Every await of the handler is a  *)
(* separate step; the code between two awaits runs to completion, as on    *)
(* the single-threaded event loop.                                         *)
(***************************************************************************)
EXTENDS Integers, Sequences, FiniteSets, TLC

\* ---------------------------------------------------------------- bounds
\* Number of times the wall clock advances.
MaxTicks == 2

\* The model follows two requests, numbered in the order of their arrival;
\* their handlers may overlap.
Reqs == {1, 2}

\* ------------------------------------------------------- program constants
\* const CACHE_TTL = 5 * 60 * 1000
CACHE_TTL == 5 * 60 * 1000

\* The clock advances in steps of half the TTL, so that a cache entry is seen
\* at the ages 0, CACHE_TTL / 2 and exactly CACHE_TTL.
TickStep == CACHE_TTL \div 2

\* JavaScript null / undefined, where an object is expected.
NULL == [null |-> TRUE]

\* let emailError = null: null where an error message is expected.
NoMessage == "null"

\* process.env.SHOPIFY_STORE_DOMAIN when it is set.
SHOPIFY_STORE_DOMAIN == "shop.myshopify.com"

\* The note every draft-order input carries.
Note == "Created via Draft Order App"

\* --------------------------------------------------------------- requests
Methods == {"POST", "OPTIONS", "GET", "PUT"}

\* What request.json() yields: a rejection (malformed JSON), the JSON value
\* null, an object without cart.items, one with cart.items = [], and one with
\* a line item.
Bodies == {"malformed", "null", "nocart", "empty", "items"}

\* The Origin request header ("" when the header is absent).
Origins == {"", "https://storefront.example"}

\* ------------------------------------------------------- settings records
SettingRow(enabled, d1, d2, sd, t1, t2, st) ==
    [shop |-> SHOPIFY_STORE_DOMAIN, doubleDraftOrdersEnabled |-> enabled,
     discount1 |-> d1, discount2 |-> d2, tag1 |-> t1, tag2 |-> t2,
     singleDiscount |-> sd, singleTag |-> st]

\* The row db.setting.create writes when none exists.
DefaultSetting == SettingRow(FALSE, 0, 0, 0, "", "", "")

\* The rows the settings table may hold when the server starts.
StoredSettings ==
    { SettingRow(FALSE, 40, 60, 10, "pay40", "final60", "single"),
      SettingRow(TRUE, 40, 60, 10, "pay40", "final60", "single"),
      SettingRow(TRUE, 0, 60, 10, "pay40", "final60", "single"),
      SettingRow(TRUE, 40, 0, 0, "pay40", "final60", "") }

VARIABLES
    configOk,           \* SHOPIFY_STORE_DOMAIN && SHOPIFY_ADMIN_TOKEN are set
    smtpCreds,          \* SMTP_USER && SMTP_PASS are set
    clock,              \* Date.now()
    ticks,              \* how often the clock has advanced
    settingsCache,      \* let settingsCache
    settingsCacheTime,  \* let settingsCacheTime
    dbRow,              \* the settings table's row for the shop, or NULL
    adminDrafts,        \* the draft orders of the admin account, in creation order
    pc,                 \* per request: where its handler is suspended
    method,             \* per request: request.method
    origin,             \* per request: request.headers.get("Origin"), once read
    body,               \* per request: what request.json() yielded
    hasEmail,           \* per request: customer?.email is truthy, once read
    now,                \* per request: getCachedSettings' const now
    lookups,            \* per request: db.setting.findUnique calls made
    dbCreates,          \* per request: db.setting.create calls made
    setting,            \* per request: const setting
    calls,              \* per request: the createDraft calls, in call order
    createdOrders,      \* per request: let createdOrders
    mail,               \* per request: the transporter.sendMail call, or NULL
    response,           \* per request: the HTTP response, or NULL
    item,               \* a cart line item handed to the lineItems callback, or NULL
    lineItem            \* what the callback returned for it, or NULL

vars == <<configOk, smtpCreds, clock, ticks, settingsCache, settingsCacheTime,
          dbRow, adminDrafts, pc, method, origin, body, hasEmail, now, lookups,
          dbCreates, setting, calls, createdOrders, mail, response, item,
          lineItem>>

lineVars == <<item, lineItem>>
envVars == <<configOk, smtpCreds>>
cacheVars == <<settingsCache, settingsCacheTime>>
clockVars == <<clock, ticks>>
inputVars == <<method, origin, body, hasEmail>>

\* ------------------------------------------------------------- responses
NoHeaders == [h \in {} |-> ""]

\* CORS headers that allow every origin, whatever the request's Origin.
getCorsHeadersWildcard(o) ==
    [h \in {"Access-Control-Allow-Origin", "Access-Control-Allow-Methods",
            "Access-Control-Allow-Headers", "Vary"} |->
        CASE h = "Access-Control-Allow-Origin" -> "*"
          [] h = "Access-Control-Allow-Methods" -> "POST, OPTIONS"
          [] h = "Access-Control-Allow-Headers" -> "Content-Type, Authorization"
          [] OTHER -> "Origin"]

\* o is what request.headers.get("Origin") yields.
getCorsHeaders(o) ==
    [h \in {"Access-Control-Allow-Origin", "Access-Control-Allow-Methods",
            "Access-Control-Allow-Headers", "Vary"} |->
        CASE h = "Access-Control-Allow-Origin" ->
                 IF o # "" THEN o ELSE "*"
          [] h = "Access-Control-Allow-Methods" -> "POST, OPTIONS"
          [] h = "Access-Control-Allow-Headers" -> "Content-Type, Authorization"
          [] OTHER -> "Origin"]

\* A response: its status, its headers and its JSON body (NULL when the body
\* is not JSON).
Response(status, headers, json) ==
    [status |-> status, headers |-> headers, json |-> json]

\* return json({ success: false, error: message }, { status, headers: getCorsHeaders(request) })
sendError(o, message, status) ==
    Response(status, getCorsHeaders(o), [success |-> FALSE, error |-> message])

\* An error no try block of the route catches: the framework answers 500
\* itself, without the route's headers or JSON body.
Uncaught(message) ==
    [status |-> 500, headers |-> NoHeaders, json |-> NULL, uncaught |-> message]

Init ==
    /\ configOk \in BOOLEAN
    /\ smtpCreds \in BOOLEAN
    /\ clock = 0
    /\ ticks = 0
    /\ settingsCache = NULL
    /\ settingsCacheTime = 0
    /\ dbRow \in StoredSettings \cup {NULL}
    /\ adminDrafts = <<>>
    /\ pc = [r \in Reqs |-> "idle"]
    /\ method = [r \in Reqs |-> "POST"]
    /\ origin = [r \in Reqs |-> ""]
    /\ body = [r \in Reqs |-> "malformed"]
    /\ hasEmail = [r \in Reqs |-> FALSE]
    /\ now = [r \in Reqs |-> 0]
    /\ lookups = [r \in Reqs |-> 0]
    /\ dbCreates = [r \in Reqs |-> 0]
    /\ setting = [r \in Reqs |-> NULL]
    /\ calls = [r \in Reqs |-> <<>>]
    /\ createdOrders = [r \in Reqs |-> <<>>]
    /\ mail = [r \in Reqs |-> NULL]
    /\ response = [r \in Reqs |-> NULL]
    /\ item = NULL
    /\ lineItem = NULL

\* The clock advances.  Date.now() is read in one place, on entry to
\* getCachedSettings after `await request.json()`, so only the time that has
\* passed when a handler is about to resume there can be observed.
Tick ==
    /\ ticks < MaxTicks
    /\ \E r \in Reqs : pc[r] = "json"
    /\ clock' = clock + TickStep
    /\ ticks' = ticks + 1
    /\ UNCHANGED <<lineVars, envVars, cacheVars, dbRow, adminDrafts, pc, inputVars, now,
                   lookups, dbCreates, setting, calls, createdOrders, mail,
                   response>>

\* ------------------------------------------------------------ createDraft
\* const input = {...}: the fields of the DraftOrderInput that depend on the
\* call's arguments, and the fixed note.
createDraftInput(discount, label, tag) ==
    [note |-> Note,
     tags |-> IF tag # "" THEN <<tag>> ELSE <<>>,
     appliedDiscount |->
        IF discount > 0
        THEN [title |-> label, value |-> discount, valueType |-> "PERCENTAGE"]
        ELSE NULL]

\* A createDraft call: its input, and the state of its promise.
Call(discount, label, tag) ==
    [input |-> createDraftInput(discount, label, tag),
     state |-> "pending", wire |-> NULL, result |-> NULL]

\* The mode test reduced to the flag.
IsDoubleModeFlagOnly(s) == s.doubleDraftOrdersEnabled

\* if (setting.doubleDraftOrdersEnabled && setting.discount1 > 0 && setting.discount2 > 0)
IsDoubleMode(s) ==
    s.doubleDraftOrdersEnabled /\ s.discount1 > 0 /\ s.discount2 > 0

\* The two halves created in the other order: 40% first, then 60%.
CreateCallsUnswapped(s) ==
    IF IsDoubleMode(s)
    THEN << Call(s.discount1, "PAYNOW40", s.tag1),
            Call(s.discount2, "FINAL60", s.tag2) >>
    ELSE << Call(s.singleDiscount, "Your Discount", s.singleTag) >>

\* The createDraft calls the handler makes, in call order.
CreateCalls(s) ==
    IF IsDoubleMode(s)
    THEN << Call(s.discount2, "FINAL60", s.tag2),
            Call(s.discount1, "PAYNOW40", s.tag1) >>
    ELSE << Call(s.singleDiscount, "Your Discount", s.singleTag) >>

\* What the Admin API can answer to one create request, as createDraft sees
\* it: whether fetch resolved, the HTTP status, whether the body parses as
\* JSON, whether it has a top-level `errors`, and what `data` holds
\* ("none": no data.draftOrderCreate; "userErrors": a non-empty userErrors
\* list; "null": draftOrder null with no userErrors; "draft": a draft order,
\* whose line item has a variant or not).
Wire(fetchOk, status, jsonOk, errors, data, variant) ==
    [fetchOk |-> fetchOk, status |-> status, jsonOk |-> jsonOk,
     errors |-> errors, data |-> data, variant |-> variant]

WireResponses ==
    { Wire(TRUE, 200, TRUE, FALSE, "draft", TRUE),
      Wire(TRUE, 200, TRUE, FALSE, "draft", FALSE),
      Wire(TRUE, 500, TRUE, FALSE, "draft", TRUE),
      Wire(TRUE, 200, TRUE, TRUE, "none", TRUE),
      Wire(TRUE, 200, TRUE, FALSE, "userErrors", TRUE),
      Wire(TRUE, 200, TRUE, FALSE, "null", TRUE),
      Wire(TRUE, 502, FALSE, FALSE, "none", TRUE),
      Wire(FALSE, 0, FALSE, FALSE, "none", TRUE) }

\* The request reached the Admin API and it created a draft order.
Created(w) == w.fetchOk /\ w.data = "draft"

\* The draft order the admin account gets for a create request.
NewDraft(input, name) ==
    [name |-> name, note |-> input.note, tags |-> input.tags,
     appliedDiscount |-> input.appliedDiscount]

\* The draftOrder selection of the mutation's answer: the order's name, and
\* whether its line item's variant is non-null.
DraftOrder(w, name) == [name |-> name, variant |-> w.variant]

\* createDraft from `await fetch` on: "throw" with the error's message, or
\* "return" with data.data.draftOrderCreate.draftOrder.
createDraftResult(w, draft) ==
    IF ~w.fetchOk THEN [kind |-> "throw", message |-> "fetch failed"]
    ELSE IF ~w.jsonOk THEN [kind |-> "throw", message |-> "SyntaxError"]
    ELSE IF w.errors
         THEN [kind |-> "throw", message |-> "JSON.stringify(errors)"]
    ELSE IF w.data = "userErrors"
         THEN [kind |-> "throw", message |-> "JSON.stringify(userErrors)"]
    ELSE IF w.data = "none" THEN [kind |-> "throw", message |-> "TypeError"]
    ELSE IF w.data = "null" THEN [kind |-> "return", value |-> NULL]
    ELSE [kind |-> "return", value |-> draft]

\* ---------------------------------------------------------- sendEmailAsync
\* A transporter that is built whether or not the credentials are set.
getEmailTransporterAlways == [host |-> "smtp.gmail.com", port |-> 587]

\* getEmailTransporter(): null without SMTP_USER / SMTP_PASS.
getEmailTransporter ==
    IF smtpCreds THEN [host |-> "smtp.gmail.com", port |-> 587] ELSE NULL

\* sendEmailAsync up to `await transporter.sendMail`: "throw" with the
\* message, or "mail" with the mail options handed to sendMail.  order40 and
\* order60 are read by position; the items list is built from orders[0].
composeEmail(orders) ==
    LET primaryOrder == orders[1]
        hasMultipleOrders == Len(orders) > 1
        order40 == IF Len(orders) > 1 THEN orders[2] ELSE NULL
        order60 == IF Len(orders) > 1 THEN orders[1] ELSE NULL
    IN  IF getEmailTransporter = NULL
        THEN [kind |-> "throw", message |-> "Email transporter not available"]
        ELSE IF primaryOrder = NULL \/ ~primaryOrder.variant
        THEN [kind |-> "throw", message |-> "TypeError"]
        ELSE [kind |-> "mail",
              subject |-> IF hasMultipleOrders THEN "Partial Payment Order Recieved"
                          ELSE "Your order is ready",
              cards |-> IF hasMultipleOrders
                        THEN << [title |-> "First Payment (40%)",
                                 orderId |-> order40.name],
                                [title |-> "Final Payment (60%)",
                                 orderId |-> order60.name] >>
                        ELSE <<>>,
              state |-> "sending"]

\* return json({success: true, drafts: createdOrders, emailSent, emailError}, ...)
Success(o, orders, emailSent, emailError) ==
    Response(200, getCorsHeaders(o),
             [success |-> TRUE, drafts |-> orders, emailSent |-> emailSent,
              emailError |-> emailError])

\* ------------------------------------------------------------------ action
\* The code after the join without the try block around sendEmailAsync: an
\* email error reaches the outer catch.
AfterJoinEmailFatal(cs, e, o) ==
    LET orders == [i \in 1..Len(cs) |-> cs[i].result]
        email == composeEmail(orders)
    IN  IF Len(cs) > 1 /\ \E i \in 1..Len(cs) : orders[i] = NULL
        THEN [pc |-> "done", createdOrders |-> orders, mail |-> NULL,
              emailRead |-> FALSE, response |-> sendError(o, "TypeError", 500)]
        ELSE IF ~e
        THEN [pc |-> "done", createdOrders |-> orders, mail |-> NULL,
              emailRead |-> TRUE,
              response |-> Success(o, orders, FALSE, NoMessage)]
        ELSE IF email.kind = "throw"
        THEN [pc |-> "done", createdOrders |-> orders, mail |-> NULL,
              emailRead |-> TRUE,
              response |-> sendError(o, email.message, 500)]
        ELSE [pc |-> "sending", createdOrders |-> orders, mail |-> email,
              emailRead |-> TRUE, response |-> NULL]

\* The code after the join with sendEmailAsync not awaited: the response is
\* built while sendMail is in flight.
AfterJoinFireAndForget(cs, e, o) ==
    LET orders == [i \in 1..Len(cs) |-> cs[i].result]
        email == composeEmail(orders)
    IN  IF Len(cs) > 1 /\ \E i \in 1..Len(cs) : orders[i] = NULL
        THEN [pc |-> "done", createdOrders |-> orders, mail |-> NULL,
              emailRead |-> FALSE, response |-> sendError(o, "TypeError", 500)]
        ELSE IF ~e
        THEN [pc |-> "done", createdOrders |-> orders, mail |-> NULL,
              emailRead |-> TRUE,
              response |-> Success(o, orders, FALSE, NoMessage)]
        ELSE IF email.kind = "throw"
        THEN [pc |-> "done", createdOrders |-> orders, mail |-> NULL,
              emailRead |-> TRUE,
              response |-> Success(o, orders, FALSE, email.message)]
        ELSE [pc |-> "sending", createdOrders |-> orders, mail |-> email,
              emailRead |-> TRUE,
              response |-> Success(o, orders, FALSE, NoMessage)]

\* The handler from the settled createDraft calls on (lines 253-298): the
\* orders by call position, the log line that reads both names in double
\* mode, and the email attempt up to its await.  e is whether customer?.email
\* is truthy and o the request's Origin.  Gives the request's next pc,
\* createdOrders, mail and response.
AfterJoin(cs, e, o) ==
    LET orders == [i \in 1..Len(cs) |-> cs[i].result]
        email == composeEmail(orders)
    IN  IF Len(cs) > 1 /\ \E i \in 1..Len(cs) : orders[i] = NULL
        THEN [pc |-> "done", createdOrders |-> orders, mail |-> NULL,
              emailRead |-> FALSE, response |-> sendError(o, "TypeError", 500)]
        ELSE IF ~e
        THEN [pc |-> "done", createdOrders |-> orders, mail |-> NULL,
              emailRead |-> TRUE,
              response |-> Success(o, orders, FALSE, NoMessage)]
        ELSE IF email.kind = "throw"
        THEN [pc |-> "done", createdOrders |-> orders, mail |-> NULL,
              emailRead |-> TRUE,
              response |-> Success(o, orders, FALSE, email.message)]
        ELSE [pc |-> "sending", createdOrders |-> orders, mail |-> email,
              emailRead |-> TRUE, response |-> NULL]

\* A join that is fulfilled by the first fulfilled call.
JoinStateAny(cs) ==
    IF \E i \in 1..Len(cs) : cs[i].state = "fulfilled" THEN "fulfilled"
    ELSE IF \A i \in 1..Len(cs) : cs[i].state = "rejected" THEN "rejected"
    ELSE "pending"

\* Promise.all over the calls (a single awaited call is the one-element
\* case): rejected as soon as one call is, fulfilled once all are.
JoinState(cs) ==
    IF \E i \in 1..Len(cs) : cs[i].state = "rejected" THEN "rejected"
    ELSE IF \A i \in 1..Len(cs) : cs[i].state = "fulfilled" THEN "fulfilled"
    ELSE "pending"

\* A catch block that reports the orders created so far as a success.
ResumePartial(cs, res, e, o) ==
    IF JoinState(cs) = "rejected"
    THEN [pc |-> "done", createdOrders |-> <<>>, mail |-> NULL,
          emailRead |-> FALSE,
          response |-> Success(o, SelectSeq([i \in 1..Len(cs) |-> cs[i].result],
                                            LAMBDA d : d # NULL),
                               FALSE, NoMessage)]
    ELSE AfterJoin(cs, e, o)

\* The handler resumed by a settled join: the catch block answers 500 with
\* the error's message when the join rejected with res, and the code after
\* the join runs when it fulfilled.
Resume(cs, res, e, o) ==
    IF JoinState(cs) = "rejected"
    THEN [pc |-> "done", createdOrders |-> <<>>, mail |-> NULL,
          emailRead |-> FALSE, response |-> sendError(o, res.message, 500)]
    ELSE AfterJoin(cs, e, o)

\* The handler from `const setting = await getCachedSettings(shop)` to the
\* await of the createDraft calls: every call is started before the handler
\* suspends.  Handlers share the cache and the settings row only; the model
\* lets them overlap up to this point and runs the rest of one handler (its
\* create calls, its mail, its response) while no other handler is there.
StartCreates(r, s) ==
    /\ \A q \in Reqs \ {r} : pc[q] \notin {"creating", "sending", "done"}
    /\ setting' = [setting EXCEPT ![r] = s]
    /\ calls' = [calls EXCEPT ![r] = CreateCalls(s)]
    /\ pc' = [pc EXCEPT ![r] = "creating"]

\* Which export the framework runs: `action` for the mutating methods,
\* `loader` for the others.
IsActionRequest(m) == m \in {"POST", "PUT", "PATCH", "DELETE"}

\* export async function loader
loader(m, o) ==
    IF m = "OPTIONS"
    THEN Response(204, getCorsHeaders(o), NULL)
    ELSE Response(405, NoHeaders, NULL)

\* A request arrives.  The loader answers at once; the action checks the
\* configuration and suspends at `await request.json()`.  The Origin header
\* is drawn in the step that reads it, the one that builds the response.
Receive(r) ==
    /\ pc[r] = "idle"
    /\ r > 1 => pc[r - 1] # "idle"
    /\ \E m \in Methods, o \in Origins :
        /\ method' = [method EXCEPT ![r] = m]
        /\ IF ~IsActionRequest(m)
           THEN /\ response' = [response EXCEPT ![r] = loader(m, o)]
                /\ origin' = [origin EXCEPT ![r] = o]
                /\ pc' = [pc EXCEPT ![r] = "done"]
           ELSE IF ~configOk
           THEN /\ response' = [response EXCEPT ![r] =
                                 sendError(o, "Server configuration error", 500)]
                /\ origin' = [origin EXCEPT ![r] = o]
                /\ pc' = [pc EXCEPT ![r] = "done"]
           ELSE /\ UNCHANGED <<response, origin>>
                /\ pc' = [pc EXCEPT ![r] = "json"]
    /\ UNCHANGED <<lineVars, envVars, clockVars, cacheVars, dbRow, adminDrafts, body,
                   hasEmail, now, lookups, dbCreates, setting, calls,
                   createdOrders, mail>>

\* A test for a missing cart.items only: if (!cart?.items)
CartIsEmptyMissingOnly(b) == b = "nocart"

\* if (!cart?.items?.length)
CartIsEmpty(b) == b \in {"nocart", "empty"}

\* The freshness test with <= for <.
CacheFreshInclusive(shop, t) ==
    /\ settingsCache # NULL
    /\ settingsCache.shop = shop
    /\ (t - settingsCacheTime) <= CACHE_TTL

\* if (settingsCache && settingsCache.shop === shop && (now - settingsCacheTime) < CACHE_TTL)
CacheFresh(shop, t) ==
    /\ settingsCache # NULL
    /\ settingsCache.shop = shop
    /\ (t - settingsCacheTime) < CACHE_TTL

\* request.json() settles.  A body without line items is answered here; with
\* line items the handler enters getCachedSettings, which returns the cached
\* object or suspends at `await db.setting.findUnique`.
ParseBody(r) ==
    /\ pc[r] = "json"
    /\ \E b \in Bodies, o \in Origins :
        /\ body' = [body EXCEPT ![r] = b]
        /\ CASE b = "malformed" ->
                 /\ response' = [response EXCEPT ![r] =
                        sendError(o, "Invalid JSON in request body", 400)]
                 /\ origin' = [origin EXCEPT ![r] = o]
                 /\ pc' = [pc EXCEPT ![r] = "done"]
                 /\ UNCHANGED <<now, lookups, setting, calls>>
             [] b = "null" ->
                 /\ response' = [response EXCEPT ![r] = Uncaught("TypeError")]
                 /\ pc' = [pc EXCEPT ![r] = "done"]
                 /\ UNCHANGED <<origin, now, lookups, setting, calls>>
             [] CartIsEmpty(b) ->
                 /\ response' = [response EXCEPT ![r] =
                        sendError(o, "Cart is empty", 400)]
                 /\ origin' = [origin EXCEPT ![r] = o]
                 /\ pc' = [pc EXCEPT ![r] = "done"]
                 /\ UNCHANGED <<now, lookups, setting, calls>>
             [] OTHER ->
                 /\ now' = [now EXCEPT ![r] = clock]
                 /\ UNCHANGED <<response, origin>>
                 /\ IF CacheFresh(SHOPIFY_STORE_DOMAIN, clock)
                    THEN /\ StartCreates(r, settingsCache)
                         /\ lookups' = lookups
                    ELSE /\ lookups' = [lookups EXCEPT ![r] = @ + 1]
                         /\ pc' = [pc EXCEPT ![r] = "findUnique"]
                         /\ UNCHANGED <<setting, calls>>
    /\ UNCHANGED <<lineVars, envVars, clockVars, cacheVars, dbRow, adminDrafts, method,
                   hasEmail, dbCreates, createdOrders, mail>>

\* A cache entry stamped with the time it is written.
FillCacheStampClock(r, s) ==
    /\ settingsCache' = s
    /\ settingsCacheTime' = clock

\* settingsCache = setting; settingsCacheTime = now; return setting
FillCache(r, s) ==
    /\ settingsCache' = s
    /\ settingsCacheTime' = now[r]

\* `await db.setting.findUnique` settles: it rejects (nothing in the route
\* catches it), yields the row, or yields null and the handler suspends at
\* `await db.setting.create`.
FindUniqueDone(r) ==
    /\ pc[r] = "findUnique"
    /\ \E dbOk \in BOOLEAN :
        IF ~dbOk
        THEN /\ response' = [response EXCEPT ![r] = Uncaught("PrismaClientError")]
             /\ pc' = [pc EXCEPT ![r] = "done"]
             /\ UNCHANGED <<cacheVars, dbCreates, setting, calls>>
        ELSE IF dbRow # NULL
        THEN /\ FillCache(r, dbRow)
             /\ StartCreates(r, dbRow)
             /\ UNCHANGED <<response, dbCreates>>
        ELSE /\ dbCreates' = [dbCreates EXCEPT ![r] = @ + 1]
             /\ pc' = [pc EXCEPT ![r] = "dbCreate"]
             /\ UNCHANGED <<cacheVars, response, setting, calls>>
    /\ UNCHANGED <<lineVars, envVars, clockVars, dbRow, adminDrafts, inputVars, now,
                   lookups, createdOrders, mail>>

\* `await db.setting.create` settles: it rejects (the database failed, or
\* another request created the shop's row first and `shop` is unique), or the
\* default row is written.
DbCreateDone(r) ==
    /\ pc[r] = "dbCreate"
    /\ \E dbOk \in BOOLEAN :
        IF ~dbOk \/ dbRow # NULL
        THEN /\ response' = [response EXCEPT ![r] = Uncaught("PrismaClientError")]
             /\ pc' = [pc EXCEPT ![r] = "done"]
             /\ UNCHANGED <<cacheVars, dbRow, setting, calls>>
        ELSE /\ dbRow' = DefaultSetting
             /\ FillCache(r, DefaultSetting)
             /\ StartCreates(r, DefaultSetting)
             /\ UNCHANGED response
    /\ UNCHANGED <<lineVars, envVars, clockVars, adminDrafts, inputVars, now, lookups,
                   dbCreates, createdOrders, mail>>

\* The Admin API answers create call i of request r with w: the admin
\* account gets the draft order if one was created, and createDraft settles.
\* A handler still awaiting the calls goes on: to the catch block on the
\* first rejection, past the join once every call is fulfilled.  A call that
\* settles after the handler has answered changes nothing but the account.
CreateSettles(r, i) ==
    /\ pc[r] \in {"creating", "done"}
    /\ i \in 1..Len(calls[r])
    /\ calls[r][i].state = "pending"
    /\ \E w \in WireResponses, e \in BOOLEAN, o \in Origins :
        LET draft == NewDraft(calls[r][i].input, Len(adminDrafts) + 1)
            res == createDraftResult(w, DraftOrder(w, draft.name))
            cs == [calls[r] EXCEPT ![i] =
                     [@ EXCEPT !.state = IF res.kind = "throw" THEN "rejected"
                                         ELSE "fulfilled",
                               !.wire = w,
                               !.result = IF res.kind = "throw" THEN NULL
                                          ELSE res.value]]
            next == Resume(cs, res, e, o)
        IN  /\ adminDrafts' = IF Created(w) THEN Append(adminDrafts, draft)
                              ELSE adminDrafts
            /\ calls' = [calls EXCEPT ![r] = cs]
            /\ IF pc[r] = "done" \/ JoinState(cs) = "pending"
               THEN UNCHANGED <<pc, createdOrders, mail, response, origin,
                                hasEmail>>
               ELSE /\ pc' = [pc EXCEPT ![r] = next.pc]
                    /\ createdOrders' = [createdOrders EXCEPT ![r] = next.createdOrders]
                    /\ mail' = [mail EXCEPT ![r] = next.mail]
                    /\ response' = [response EXCEPT ![r] = next.response]
                    /\ hasEmail' = [hasEmail EXCEPT ![r] =
                                      IF next.emailRead THEN e ELSE @]
                    /\ origin' = [origin EXCEPT ![r] =
                                    IF next.pc = "done" THEN o ELSE @]
    /\ UNCHANGED <<lineVars, envVars, clockVars, cacheVars, dbRow, method, body, now,
                   lookups, dbCreates, setting>>

\* `await transporter.sendMail` settles; the handler reports the outcome in
\* the 200 response.
SendMailDone(r) ==
    /\ pc[r] = "sending"
    /\ \E sent \in BOOLEAN, o \in Origins :
        /\ mail' = [mail EXCEPT ![r] =
                      [@ EXCEPT !.state = IF sent THEN "sent" ELSE "failed"]]
        /\ response' = [response EXCEPT ![r] =
                          IF sent THEN Success(o, createdOrders[r], TRUE, NoMessage)
                          ELSE Success(o, createdOrders[r], FALSE, "SMTP error")]
        /\ origin' = [origin EXCEPT ![r] = o]
    /\ pc' = [pc EXCEPT ![r] = "done"]
    /\ UNCHANGED <<lineVars, envVars, clockVars, cacheVars, dbRow, adminDrafts, method,
                   body, hasEmail, now, lookups, dbCreates, setting, calls,
                   createdOrders>>

\* The response has been sent and every createDraft call has settled: the
\* handler's frame is gone.
Close(r) ==
    /\ pc[r] = "done"
    /\ \A i \in 1..Len(calls[r]) : calls[r][i].state # "pending"
    /\ pc' = [pc EXCEPT ![r] = "closed"]
    /\ method' = [method EXCEPT ![r] = "POST"]
    /\ origin' = [origin EXCEPT ![r] = ""]
    /\ body' = [body EXCEPT ![r] = "malformed"]
    /\ hasEmail' = [hasEmail EXCEPT ![r] = FALSE]
    /\ now' = [now EXCEPT ![r] = 0]
    /\ lookups' = [lookups EXCEPT ![r] = 0]
    /\ dbCreates' = [dbCreates EXCEPT ![r] = 0]
    /\ setting' = [setting EXCEPT ![r] = NULL]
    /\ calls' = [calls EXCEPT ![r] = <<>>]
    /\ createdOrders' = [createdOrders EXCEPT ![r] = <<>>]
    /\ mail' = [mail EXCEPT ![r] = NULL]
    /\ response' = [response EXCEPT ![r] = NULL]
    /\ UNCHANGED <<lineVars, envVars, clockVars, cacheVars, dbRow, adminDrafts>>

Next ==
    \/ Tick
    \/ \E r \in Reqs : Receive(r)
    \/ \E r \in Reqs : ParseBody(r)
    \/ \E r \in Reqs : FindUniqueDone(r)
    \/ \E r \in Reqs : DbCreateDone(r)
    \/ \E r \in Reqs : \E i \in 1..2 : CreateSettles(r, i)
    \/ \E r \in Reqs : SendMailDone(r)
    \/ \E r \in Reqs : Close(r)

Spec == Init /\ [][Next]_vars

\* -------------------------------------------------------------- lineItems
\* The cart line items the callback of cart.items.map is applied to: prices
\* in cents, and the item's recorded total discount.
OriginalPrices == {0, 300, 999, 1000}
FinalPrices == {0, 300, 800, 1000, 1200}
TotalDiscounts == {0, 1, 200}

CartItem(op, fp, td) ==
    [original_price |-> op, final_price |-> fp, total_discount |-> td]

CartItems ==
    { CartItem(op, fp, td) : op \in OriginalPrices, fp \in FinalPrices,
                             td \in TotalDiscounts }

\* Number(x.toFixed(2)) for x = num / den with den > 0, in hundredths: the
\* nearest hundredth, a tie going away from zero.  None of the CartItems
\* gives a tie, where the double nearest to x would decide instead.
toFixed2(num, den) ==
    LET n == num * 100
        a == IF n < 0 THEN -n ELSE n
        q == (2 * a + den) \div (2 * den)
    IN  IF n < 0 THEN -q ELSE q

\* const percentageOff = original > 0 ? ((original - final) / original) * 100 : 0
\* as the fraction <<numerator, denominator>>.
percentageOff(it) ==
    IF it.original_price > 0
    THEN << (it.original_price - it.final_price) * 100, it.original_price >>
    ELSE << 0, 1 >>

\* A callback that attaches the discount whenever the prices differ.
LineItemByPriceDelta(it) ==
    [appliedDiscount |->
        IF percentageOff(it)[1] > 0
        THEN [title |-> "Discount",
              value |-> toFixed2(percentageOff(it)[1], percentageOff(it)[2]),
              valueType |-> "PERCENTAGE"]
        ELSE NULL]

\* The callback's result: appliedDiscount (its value in hundredths of a
\* percent), NULL for undefined.
LineItem(it) ==
    [appliedDiscount |->
        IF it.total_discount > 0
        THEN [title |-> "Discount",
              value |-> toFixed2(percentageOff(it)[1], percentageOff(it)[2]),
              valueType |-> "PERCENTAGE"]
        ELSE NULL]

\* The callback is applied to the item.
MapLineItem ==
    /\ item # NULL
    /\ lineItem = NULL
    /\ lineItem' = LineItem(item)
    /\ UNCHANGED <<item, envVars, clockVars, cacheVars, dbRow, adminDrafts, pc,
                   inputVars, now, lookups, dbCreates, setting, calls,
                   createdOrders, mail, response>>

\* A handler about to build its lineItems, with one cart item.
LineItemInit ==
    /\ configOk = TRUE
    /\ smtpCreds = TRUE
    /\ clock = 0
    /\ ticks = 0
    /\ settingsCache = NULL
    /\ settingsCacheTime = 0
    /\ dbRow = NULL
    /\ adminDrafts = <<>>
    /\ pc = [r \in Reqs |-> "idle"]
    /\ method = [r \in Reqs |-> "POST"]
    /\ origin = [r \in Reqs |-> ""]
    /\ body = [r \in Reqs |-> "malformed"]
    /\ hasEmail = [r \in Reqs |-> FALSE]
    /\ now = [r \in Reqs |-> 0]
    /\ lookups = [r \in Reqs |-> 0]
    /\ dbCreates = [r \in Reqs |-> 0]
    /\ setting = [r \in Reqs |-> NULL]
    /\ calls = [r \in Reqs |-> <<>>]
    /\ createdOrders = [r \in Reqs |-> <<>>]
    /\ mail = [r \in Reqs |-> NULL]
    /\ response = [r \in Reqs |-> NULL]
    /\ item \in CartItems
    /\ lineItem = NULL

LineItemNext == MapLineItem

LineItemSpec == LineItemInit /\ [][LineItemNext]_vars

\* -------------------------------------------------------------- dashboard
\* The note in the dashboard's draftOrders query:
\* draftOrders(first: 100, query: "note:'Created via Draft App'")
DashboardQueryNote == "Created via Draft App"

\* first: 100
DraftOrdersPageLimit == 100

\* The words of the two notes.
Words(s) ==
    CASE s = "Created via Draft Order App" ->
             <<"Created", "via", "Draft", "Order", "App">>
      [] s = "Created via Draft App" -> <<"Created", "via", "Draft", "App">>
      [] OTHER -> <<s>>

\* A quoted search term matches a text that contains its words as a phrase.
MatchesPhrase(text, phrase) ==
    LET t == Words(text)
        p == Words(phrase)
    IN  \E k \in 0..(Len(t) - Len(p)) : \A j \in 1..Len(p) : t[k + j] = p[j]

\* fetchDraftOrdersCount: 0 when the query's response is not ok, else the
\* number of edges of the first page of the draft orders the query matches.
fetchDraftOrdersCount(ok) ==
    LET matching == { k \in 1..Len(adminDrafts) :
                        MatchesPhrase(adminDrafts[k].note, DashboardQueryNote) }
    IN  IF ~ok THEN 0
        ELSE IF Cardinality(matching) > DraftOrdersPageLimit
        THEN DraftOrdersPageLimit
        ELSE Cardinality(matching)

\* ------------------------------------------------------------------ claims
\* The request has been answered and its handler's frame is still there.
Responded(r) == pc[r] = "done"

\* The response is the handler's {success: true, ...}.
IsSuccess(r) ==
    /\ Responded(r)
    /\ response[r].json # NULL
    /\ response[r].json.success

\* The response is a sendError one with this status.
IsError(r, status) ==
    /\ Responded(r)
    /\ response[r].status = status
    /\ response[r].json # NULL
    /\ ~response[r].json.success

\* The handler of r has got its settings and started its createDraft calls.
HasSettings(r) == setting[r] # NULL

\* What a createDraft call sends for a discount and a tag.
Carries(c, discount, tag) ==
    /\ c.input.tags = IF tag # "" THEN <<tag>> ELSE <<>>
    /\ IF discount > 0
       THEN c.input.appliedDiscount # NULL
            /\ c.input.appliedDiscount.value = discount
       ELSE c.input.appliedDiscount = NULL

\* The handler of r branched to the double mode.
InDoubleMode(r) ==
    /\ HasSettings(r)
    /\ setting[r].doubleDraftOrdersEnabled
    /\ setting[r].discount1 > 0
    /\ setting[r].discount2 > 0

\* C1: a POST with a non-empty cart whose handler has got its settings has
\* issued exactly two create calls, one carrying discount1/tag1 and one
\* carrying discount2/tag2, when the settings have the flag on and both
\* discounts above 0, and otherwise exactly one, carrying
\* singleDiscount/singleTag.
C1_ModeSelection ==
    \A r \in Reqs :
        (method[r] = "POST" /\ body[r] = "items" /\ HasSettings(r)) =>
            LET s == setting[r]
                cs == calls[r]
            IN  IF s.doubleDraftOrdersEnabled /\ s.discount1 > 0 /\ s.discount2 > 0
                THEN /\ Len(cs) = 2
                     /\ \E i, j \in 1..2 :
                            /\ i # j
                            /\ Carries(cs[i], s.discount1, s.tag1)
                            /\ Carries(cs[j], s.discount2, s.tag2)
                ELSE /\ Len(cs) = 1
                     /\ Carries(cs[1], s.singleDiscount, s.singleTag)

\* C1 witness: the flag is on, discount1 is 0, and the POST has issued its
\* one create call, with the single-mode discount and tag.
C1_Witness ==
    \E r \in Reqs :
        /\ method[r] = "POST" /\ body[r] = "items" /\ HasSettings(r)
        /\ setting[r].doubleDraftOrdersEnabled
        /\ setting[r].discount1 = 0
        /\ Len(calls[r]) = 1
        /\ Carries(calls[r][1], setting[r].singleDiscount, setting[r].singleTag)

\* What the Admin API answered makes the create call fail: fetch rejected,
\* the body is not JSON, it has a top-level errors list, it has a non-empty
\* userErrors list, or it has no draftOrderCreate at all.
CallFailed(c) ==
    /\ c.state # "pending"
    /\ \/ ~c.wire.fetchOk
       \/ ~c.wire.jsonOk
       \/ c.wire.errors
       \/ c.wire.data \in {"userErrors", "none"}

\* The admin account holds the draft order that create call c returned.
DraftRemains(c) ==
    \E k \in 1..Len(adminDrafts) :
        /\ adminDrafts[k].name = c.result.name
        /\ adminDrafts[k].tags = c.input.tags

\* C2: in double mode, once a create call has failed and the handler has
\* answered, the answer is 500 with success false; a success response lists
\* two drafts; and the draft order of a call that succeeded is still in the
\* admin account.
C2_NoPartialSuccess ==
    \A r \in Reqs :
        (InDoubleMode(r) /\ Responded(r)) =>
            /\ (\E i \in 1..2 : CallFailed(calls[r][i])) => IsError(r, 500)
            /\ IsSuccess(r) => Len(response[r].json.drafts) = 2
            /\ \A i \in 1..2 :
                  (calls[r][i].state = "fulfilled" /\ calls[r][i].result # NULL)
                      => DraftRemains(calls[r][i])

\* C2 witness: a double-mode request was answered 500 after one call failed,
\* while the other call created its draft order, which the admin account
\* still holds.
C2_Witness ==
    \E r \in Reqs :
        /\ InDoubleMode(r) /\ IsError(r, 500)
        /\ \E i, j \in 1..2 :
              /\ CallFailed(calls[r][i])
              /\ calls[r][j].state = "fulfilled"
              /\ calls[r][j].result # NULL
              /\ DraftRemains(calls[r][j])

\* Every create call of r returned a draft order.
AllCreated(r) ==
    /\ calls[r] # <<>>
    /\ \A i \in 1..Len(calls[r]) :
          calls[r][i].state = "fulfilled" /\ calls[r][i].result # NULL

\* The email send of r failed: the customer has an email address and either
\* no mail was handed to sendMail (no transporter, or composing it threw) or
\* sendMail rejected.
EmailFailed(r) ==
    /\ hasEmail[r]
    /\ mail[r] = NULL \/ mail[r].state = "failed"

\* C3: when every create call returned a draft order and the email send
\* failed, the answer is 200 with success true, all created drafts,
\* emailSent false and an emailError.
C3_EmailFailureIsSoft ==
    \A r \in Reqs :
        (Responded(r) /\ AllCreated(r) /\ EmailFailed(r)) =>
            /\ response[r].status = 200
            /\ IsSuccess(r)
            /\ response[r].json.drafts = [i \in 1..Len(calls[r]) |-> calls[r][i].result]
            /\ response[r].json.emailSent = FALSE
            /\ response[r].json.emailError # NoMessage

\* C3 witness: a double-mode request whose two draft orders were created and
\* whose sendMail call rejected has been answered.
C3_Witness ==
    \E r \in Reqs :
        /\ InDoubleMode(r) /\ Responded(r) /\ AllCreated(r)
        /\ hasEmail[r]
        /\ mail[r] # NULL
        /\ mail[r].state = "failed"

\* The admin account's draft order of this name was created with this
\* discount and tag.
CreatedWith(name, discount, tag) ==
    \E k \in 1..Len(adminDrafts) :
        /\ adminDrafts[k].name = name
        /\ adminDrafts[k].tags = <<tag>>
        /\ adminDrafts[k].appliedDiscount # NULL
        /\ adminDrafts[k].appliedDiscount.value = discount

\* C4: in every double-mode success response drafts[0] is the order created
\* with discount2/tag2 and drafts[1] the one created with discount1/tag1,
\* and the mail handed to sendMail shows drafts[1] in the 'First Payment
\* (40%)' card and drafts[0] in the 'Final Payment (60%)' card.
C4_FixedPositions ==
    \A r \in Reqs :
        (InDoubleMode(r) /\ IsSuccess(r)) =>
            LET drafts == response[r].json.drafts
            IN  /\ CreatedWith(drafts[1].name, setting[r].discount2, setting[r].tag2)
                /\ CreatedWith(drafts[2].name, setting[r].discount1, setting[r].tag1)
                /\ mail[r] # NULL =>
                      /\ mail[r].cards[1].title = "First Payment (40%)"
                      /\ mail[r].cards[1].orderId = drafts[2].name
                      /\ mail[r].cards[2].title = "Final Payment (60%)"
                      /\ mail[r].cards[2].orderId = drafts[1].name

\* C4 witness: a double-mode success with a mail, where the Admin API
\* created the 40% order before the 60% one.
C4_Witness ==
    \E r \in Reqs :
        /\ InDoubleMode(r) /\ IsSuccess(r)
        /\ mail[r] # NULL
        /\ response[r].json.drafts[2].name < response[r].json.drafts[1].name

\* C5: in double mode no create call settles before both have been started,
\* and the handler is past the join (it has its createdOrders) only when
\* both calls are fulfilled.
C5_ConcurrentJoin ==
    \A r \in Reqs :
        InDoubleMode(r) =>
            /\ Len(calls[r]) = 2
            /\ createdOrders[r] # <<>> =>
                  \A i \in 1..2 : calls[r][i].state = "fulfilled"

\* C5 witness: both create calls of a double-mode request are in flight.
C5_Witness ==
    \E r \in Reqs :
        /\ InDoubleMode(r)
        /\ Len(calls[r]) = 2
        /\ calls[r][1].state = "pending"
        /\ calls[r][2].state = "pending"

\* C6: a getCachedSettings call entered while the cache holds the shop's
\* entry and less than CACHE_TTL has passed since the time stamped on it
\* returns the cached object without a findUnique call and leaves the slot
\* and its timestamp alone; a call entered otherwise makes one findUnique
\* call, and when it returns it has made exactly that one and has put its
\* result and the time of its entry into the slot.
C6_CacheTtl ==
    [][\A r \in Reqs :
        LET fresh == /\ settingsCache # NULL
                     /\ settingsCache.shop = SHOPIFY_STORE_DOMAIN
                     /\ clock - settingsCacheTime < CACHE_TTL
            enters == pc[r] = "json" /\ pc'[r] \in {"creating", "findUnique"}
            returns == pc[r] \in {"findUnique", "dbCreate"} /\ pc'[r] = "creating"
        IN  /\ (enters /\ fresh) =>
                  /\ pc'[r] = "creating"
                  /\ setting'[r] = settingsCache
                  /\ lookups'[r] = 0
                  /\ UNCHANGED cacheVars
            /\ (enters /\ ~fresh) =>
                  /\ pc'[r] = "findUnique"
                  /\ lookups'[r] = 1
                  /\ UNCHANGED cacheVars
            /\ returns =>
                  /\ lookups'[r] = 1
                  /\ settingsCache' = setting'[r]
                  /\ settingsCacheTime' = now[r]
      ]_vars

\* C6 witness: a call entered CACHE_TTL / 2 after the time stamped on the
\* entry has returned the cached object without a lookup.
C6_Witness ==
    \E r \in Reqs :
        /\ pc[r] = "creating"
        /\ lookups[r] = 0
        /\ setting[r] = settingsCache
        /\ now[r] - settingsCacheTime = TickStep

\* res.ok, which createDraft does not read.
HttpOk(w) == w.status >= 200 /\ w.status < 300

\* One of the four failures of a create attempt: transport failure,
\* non-success HTTP status, top-level errors list, non-empty userErrors list.
AttemptFailed(c) ==
    /\ c.state # "pending"
    /\ \/ ~c.wire.fetchOk
       \/ ~HttpOk(c.wire)
       \/ c.wire.errors
       \/ c.wire.data = "userErrors"

\* C7: when a create attempt has failed in one of the four ways, the answer
\* is 500 with success false; and a success response is given only when
\* every create attempt returned a draft order with none of these failures.
C7_EveryFailureIs500 ==
    \A r \in Reqs :
        Responded(r) =>
            /\ (\E i \in 1..Len(calls[r]) : AttemptFailed(calls[r][i]))
                  => IsError(r, 500)
            /\ IsSuccess(r) =>
                  \A i \in 1..Len(calls[r]) :
                      /\ calls[r][i].state = "fulfilled"
                      /\ calls[r][i].result # NULL
                      /\ ~AttemptFailed(calls[r][i])

C9_FailuresCarryCors ==
    \A r \in Reqs :
        (Responded(r) /\ response[r].status >= 400) =>
            "Access-Control-Allow-Origin" \in DOMAIN response[r].headers

\* C10: a request whose method is neither POST nor OPTIONS is answered 405,
\* and no create call and no sendMail call is made for it.
C10_OtherMethods405 ==
    \A r \in Reqs :
        (method[r] \notin {"POST", "OPTIONS"} /\ pc[r] \notin {"idle", "closed"}) =>
            /\ Responded(r)
            /\ response[r].status = 405
            /\ calls[r] = <<>>
            /\ mail[r] = NULL

\* C11: an OPTIONS request is answered 204 with Access-Control-Allow-Origin
\* equal to the request's Origin header ("*" when the request has none),
\* Access-Control-Allow-Methods "POST, OPTIONS" and
\* Access-Control-Allow-Headers "Content-Type, Authorization", and its
\* handler makes no settings lookup, no create call and no sendMail call.
C11_OptionsPreflight ==
    \A r \in Reqs :
        (method[r] = "OPTIONS" /\ pc[r] \notin {"idle", "closed"}) =>
            /\ Responded(r)
            /\ response[r].status = 204
            /\ {"Access-Control-Allow-Origin", "Access-Control-Allow-Methods",
                "Access-Control-Allow-Headers"} \subseteq DOMAIN response[r].headers
            /\ response[r].headers["Access-Control-Allow-Origin"] =
                  (IF origin[r] # "" THEN origin[r] ELSE "*")
            /\ response[r].headers["Access-Control-Allow-Methods"] = "POST, OPTIONS"
            /\ response[r].headers["Access-Control-Allow-Headers"] =
                  "Content-Type, Authorization"
            /\ lookups[r] = 0
            /\ dbCreates[r] = 0
            /\ setting[r] = NULL
            /\ calls[r] = <<>>
            /\ mail[r] = NULL

\* C11 witness: an OPTIONS request with an Origin header has been answered
\* 204 with that origin allowed.
C11_Witness ==
    \E r \in Reqs :
        /\ method[r] = "OPTIONS"
        /\ Responded(r)
        /\ origin[r] = "https://storefront.example"
        /\ response[r].status = 204
        /\ response[r].headers["Access-Control-Allow-Origin"] = origin[r]

\* C12: when every create call returned a draft order and the customer has
\* no email address, or SMTP_USER / SMTP_PASS are not set, no sendMail call
\* is made and the answer is 200 with success true, the created drafts and
\* emailSent false.
C12_NoEmailNoCredsIsNoOp ==
    \A r \in Reqs :
        (Responded(r) /\ AllCreated(r) /\ (~hasEmail[r] \/ ~smtpCreds)) =>
            /\ mail[r] = NULL
            /\ response[r].status = 200
            /\ IsSuccess(r)
            /\ response[r].json.drafts = [i \in 1..Len(calls[r]) |-> calls[r][i].result]
            /\ response[r].json.emailSent = FALSE

\* C12 witness: the customer has an email address, the SMTP credentials are
\* not set, and the request whose draft orders were all created has been
\* answered with emailSent false.
C12_Witness ==
    \E r \in Reqs :
        /\ Responded(r) /\ AllCreated(r)
        /\ hasEmail[r]
        /\ ~smtpCreds
        /\ mail[r] = NULL
        /\ IsSuccess(r)
        /\ response[r].json.emailSent = FALSE

\* C13: the line item the callback returns has an appliedDiscount exactly
\* when the cart item's total_discount is above 0, whatever its prices are;
\* the discount is of type PERCENTAGE, and its value is
\* (original_price - final_price) / original_price * 100 to the nearest
\* hundredth when original_price is above 0, and 0 otherwise; for
\* original_price 1000, final_price 800, total_discount 1 it is 20.00.
C13_LineDiscount ==
    lineItem # NULL =>
        LET d == lineItem.appliedDiscount
            op == item.original_price
            fp == item.final_price
            err == d.value * op - (op - fp) * 10000
        IN  /\ (d # NULL) <=> (item.total_discount > 0)
            /\ d # NULL =>
                  /\ d.valueType = "PERCENTAGE"
                  /\ IF op > 0
                     THEN 2 * err <= op /\ -2 * err <= op
                     ELSE d.value = 0
                  /\ (op = 1000 /\ fp = 800) => d.value = 2000

\* C13 witness: the callback was applied to the item with original_price
\* 1000, final_price 800 and total_discount 1, and gave the value 20.00.
C13_Witness ==
    /\ item = CartItem(1000, 800, 1)
    /\ lineItem # NULL
    /\ lineItem.appliedDiscount # NULL
    /\ lineItem.appliedDiscount.value = 2000

\* C14: every draft order the action has created carries the note the
\* dashboard's count is queried by, and the count the dashboard gets from a
\* query that is answered is the number of draft orders the action has
\* created (while they fit on the query's page).
C14_DashboardCountsCreated ==
    /\ \A k \in 1..Len(adminDrafts) : adminDrafts[k].note = DashboardQueryNote
    /\ Len(adminDrafts) <= DraftOrdersPageLimit =>
          fetchDraftOrdersCount(TRUE) = Len(adminDrafts)

\* C15: a request that enters getCachedSettings while the cache is cold or
\* expired and another request's lookup or create is still in flight makes
\* its own findUnique call, so that both have made one; a findUnique that
\* finds no row is followed by that request's own create call, whether or
\* not the other request's create is in flight; and every write of the
\* cache slot puts in the writing request's result and the time at which
\* that request entered getCachedSettings, whatever the slot held.
C15_UnserializedRefresh ==
    [][\A r \in Reqs :
        LET fresh == /\ settingsCache # NULL
                     /\ settingsCache.shop = SHOPIFY_STORE_DOMAIN
                     /\ clock - settingsCacheTime < CACHE_TTL
            enters == pc[r] = "json" /\ pc'[r] \in {"creating", "findUnique"}
            foundNone == /\ pc[r] = "findUnique"
                         /\ pc'[r] \notin {"findUnique", "done"}
                         /\ dbRow = NULL
            writes == /\ pc[r] \in {"findUnique", "dbCreate"}
                      /\ pc'[r] = "creating"
        IN  /\ \A q \in Reqs \ {r} :
                  (enters /\ ~fresh /\ pc[q] \in {"findUnique", "dbCreate"}) =>
                      /\ pc'[r] = "findUnique"
                      /\ lookups'[r] = 1
                      /\ lookups'[q] = 1
            /\ foundNone =>
                  /\ pc'[r] = "dbCreate"
                  /\ dbCreates'[r] = 1
            /\ writes =>
                  /\ settingsCache' = setting'[r]
                  /\ settingsCacheTime' = now[r]
            /\ (cacheVars' # cacheVars) => \E q \in Reqs :
                  /\ pc[q] \in {"findUnique", "dbCreate"}
                  /\ pc'[q] = "creating"
      ]_vars

\* C15 witness: no settings row exists, both requests have made their
\* lookup, and both have issued a create for the shop.
C15_Witness ==
    /\ dbRow = NULL
    /\ \A r \in Reqs :
          /\ pc[r] = "dbCreate"
          /\ lookups[r] = 1
          /\ dbCreates[r] = 1

\* C16: within one request a sendMail call is started at most once, by the
\* handler as it passes the join, and never restarted once it has settled;
\* a sendMail call exists only when every create call of the request is
\* fulfilled, and never when one has rejected; and the request has a
\* response only when it has no sendMail call or that call has settled.
C16_EmailAfterCreatesBeforeResponse ==
    [][\A r \in Reqs :
        /\ (mail[r] = NULL /\ mail'[r] # NULL) =>
              /\ pc[r] = "creating"
              /\ mail'[r].state = "sending"
        /\ (mail[r] # NULL /\ mail'[r] # mail[r]) =>
              \/ pc'[r] = "closed"
              \/ /\ mail[r].state = "sending"
                 /\ mail'[r] # NULL
                 /\ mail'[r].state \in {"sent", "failed"}
        /\ mail'[r] # NULL =>
              /\ calls'[r] # <<>>
              /\ \A i \in 1..Len(calls'[r]) : calls'[r][i].state = "fulfilled"
        /\ (\E i \in 1..Len(calls'[r]) : calls'[r][i].state = "rejected") =>
              mail'[r] = NULL
        /\ response'[r] # NULL =>
              \/ mail'[r] = NULL
              \/ mail'[r].state \in {"sent", "failed"}
      ]_vars

\* C16 witness: a double-mode request whose two create calls were fulfilled
\* has been answered after its sendMail call settled, with emailSent true.
C16_Witness ==
    \E r \in Reqs :
        /\ InDoubleMode(r) /\ AllCreated(r)
        /\ mail[r] # NULL
        /\ mail[r].state = "sent"
        /\ IsSuccess(r)
        /\ response[r].json.emailSent = TRUE

====
